---- MODULE Spec2Model ----
(***************************************************************************)
(* A model of the ingestion / classification / signal pipeline:            *)
(*   - TONIndexer        (backend/data_layer/ton_indexer.py)                *)
(*   - AnomalyDetector   (backend/ai_layer/agentic_ai.py)                   *)
(*   - SignalGenerator   (backend/ai_layer/agentic_ai.py)                   *)
(*   - the off-chain pollers (backend/data_layer/off_chain_sources.py)     *)
(*   - lifespan()        (backend/api/main.py)                             *)
(*                                                                         *)
(* Four specifications share the module: Spec (the indexer's run() loop    *)
(* with start()/stop(), the Chain Client and the Kafka Sink as             *)
(* environment), SpecDetector (calls of the detector), SpecSignals (calls  *)
(* of the signal generator) and SpecApp (lifespan() starting and stopping  *)
(* the components while the pollers' run() loops go through their cycles). *)
(*                                                                         *)
(* Amounts.  The chain reports values in nanoTON and the code derives      *)
(* value_ton = value / 1e9.  A nanoTON amount is kept here as the pair     *)
(* [ton, nano] with value = ton * 10^9 + nano and 0 <= nano < 10^9, so     *)
(* that the thresholds 1.0, 100000.0 and 1000000 TON are compared exactly  *)
(* (the float quotient is correctly rounded and the thresholds are exact   *)
(* doubles, so these comparisons agree with the code's for every amount    *)
(* below 2^53 nanoTON).                                                    *)
(***************************************************************************)
EXTENDS Integers, Sequences, FiniteSets, TLC

VARIABLES
    \* ---- TONIndexer fields (ton_indexer.py:23-29)
    is_running,            \* self.is_running
    last_processed_block,  \* self.last_processed_block (the cursor)
    kafka_producer,        \* self.kafka_producer: "none" | "open" | "closed"
    session,               \* self.session:        "none" | "open" | "closed"
    \* ---- the run() coroutine: position and locals
    pc,                    \* where run() stands
    latest_block,          \* local latest_block
    transactions,          \* local transactions: [iterable, txs]
    tx_i,                  \* index of the next tx of the for loop
    tx_data,               \* transaction_data handed to process_whale_alert
    \* ---- the stop() coroutine
    stop_pc,               \* "idle" | "closing" | "done"
    \* ---- environment
    chain_offset,          \* which block kind the chain holds at height 1
    topic_transactions,    \* records accepted on ton-transactions
    topic_whale_alerts,    \* records accepted on whale-alerts
    \* ---- history of the Chain Client's answers (for the claims)
    fetch_ok,              \* heights whose transactions the client returned
    fetch_err,             \* heights whose fetch raised
    \* ---- AnomalyDetector (agentic_ai.py:176-178) and its last call
    baseline_metrics,      \* self.baseline_metrics (a dict)
    det_op,                \* the last call: "none" | "transaction" | "wallet" | "network"
    det_batch,             \* its transactions / recent_activity argument (else empty)
    det_stats,             \* its network_stats argument (else NoNetStats)
    det_result,            \* the anomalies it returned
    net_observed,          \* number of batches given to the network check
    \* ---- SignalGenerator (agentic_ai.py:267-268)
    signal_history,        \* self.signal_history
    now,                   \* the clock read by datetime.utcnow()
    topic_signals,         \* records accepted on ai-signals
    recent_limit,          \* the limit of the last call of get_recent_signals
    recent_result,         \* ... and the list it returned
    \* ---- lifespan() of api/main.py
    lifespan_pc,           \* where lifespan() stands
    \* ---- the off-chain pollers (off_chain_sources.py)
    poller_state,          \* per poller: its session and producer, see below
    run_pc,                \* per poller with a run(): where run() stands
    run_src,               \* ... the index of the query / repo of its for loop
    run_items,             \* ... the items fetched and being published
    run_i,                 \* ... the index of the next item to publish
    run_last,              \* ... how its previous cycle ended (history)
    cycles,                \* the number of poll cycles begun so far
    topic_news             \* per content key, the records accepted on news-feed

idxVars == <<is_running, last_processed_block, kafka_producer, session, pc,
             latest_block, transactions, tx_i, tx_data, stop_pc, chain_offset,
             topic_transactions, topic_whale_alerts, fetch_ok, fetch_err>>

detVars == <<baseline_metrics, det_op, det_batch, det_stats, det_result,
             net_observed>>

sigVars == <<signal_history, now, topic_signals, recent_limit, recent_result>>

appVars == <<lifespan_pc, poller_state>>

runVars == <<run_pc, run_src, run_items, run_i, run_last, cycles, topic_news>>

offVars == <<appVars, runVars>>

vars == <<idxVars, detVars, sigVars, offVars>>

----------------------------------------------------------------------------
(* Bounds *)

\* the highest masterchain seqno the Chain Client ever reports
MaxHeight == 3
\* the longest batch enumerated value by value
MaxBatchLen == 2
\* the number of calls of the network check
MaxNetCalls == 2
\* the number of poll cycles the pollers begin, all together (the cycles of a
\* stopped poller, which publish nothing, are not counted)
MaxCycles == 2

\* the largest limit get_recent_signals is called with
MaxLimit == 2
\* the number of signals generated
MaxSignals == 3
\* the last instant of the clock
MaxClock == 1

(* Program constants *)

\* settings.TON_INDEXER_START_BLOCK
TON_INDEXER_START_BLOCK == 0
\* "if value_ton < 1.0: return"
DustThresholdTon == 1
\* settings.WHALE_ALERT_THRESHOLD_TON
WHALE_ALERT_THRESHOLD_TON == 100000
\* "high" if tx_data["value_ton"] > 1000000 else "medium"
WhaleHighSeverityTon == 1000000
\* nanoTON per TON ("value / 1e9"): nano ranges over 0 .. NanoPerTon - 1
NanoPerTon == 1000000000
\* "if value > avg_value * 10"
LargeTxFactor == 10
\* "if len(recent_activity) > 100"
HighFrequencyLimit == 100
\* "if total_value > 1000000"
LargeVolumeTon == 1000000
\* "... .get("avg_tx_volume", 0) * 3"
NetworkFactor == 3
\* "confidence": 0.75 of a whale signal, in hundredths
WhaleConfidence == 75
\* "confidence": 0.8 of an anomaly signal, in hundredths
AnomalyConfidence == 80
\* len(TwitterMonitor.SEARCH_QUERIES)
NumSearchQueries == 4
\* len(GitHubMonitor.MONITORED_REPOS)
NumMonitoredRepos == 3
\* sentiment_data.get("confidence", 0.5), in hundredths
DefaultSentimentConfidence == 50
\* "... and confidence > 0.7", in hundredths
StrongSentimentConfidence == 70

----------------------------------------------------------------------------
(* Amounts: value / 1e9 compared with a whole number of TON *)

Amount(t, n) == [ton |-> t, nano |-> n]

\* value_ton < t
TonLess(v, t) == v.ton < t
\* value_ton >= t
TonAtLeast(v, t) == v.ton >= t
\* value_ton > t
TonGreater(v, t) == v.ton > t \/ (v.ton = t /\ v.nano > 0)

----------------------------------------------------------------------------
(* The chain: raw transactions as the Chain Client returns them *)

NoAddress == "none"

\* a raw transaction: in_msg_null is "in_msg": null, has_value is whether
\* in_msg carries "value"; a missing address is NoAddress
RawTx(h, i, src, dst, hasv, v, nul) ==
    [hash |-> <<h, i>>, in_msg_null |-> nul, source |-> src,
     destination |-> dst, has_value |-> hasv, value |-> v]

NumBlockKinds == 6

\* the payload of the block at height h when it is of kind k
BlockOfKind(k, h) ==
    CASE k = 1 -> [iterable |-> TRUE, txs |->
            << RawTx(h, 1, "EQa", "EQb", TRUE, Amount(0, NanoPerTon - 1), FALSE),
               RawTx(h, 2, "EQa", "EQb", TRUE, Amount(DustThresholdTon, 0), FALSE) >>]
      [] k = 2 -> [iterable |-> TRUE, txs |->
            << RawTx(h, 1, "EQa", "EQb", TRUE,
                     Amount(WHALE_ALERT_THRESHOLD_TON - 1, NanoPerTon - 1), FALSE),
               RawTx(h, 2, "EQa", "EQexchange", TRUE,
                     Amount(WHALE_ALERT_THRESHOLD_TON, 0), FALSE) >>]
      [] k = 3 -> [iterable |-> TRUE, txs |->
            << RawTx(h, 1, "EQa", "EQb", TRUE, Amount(WhaleHighSeverityTon, 0), FALSE),
               RawTx(h, 2, "EQa", "EQb", TRUE, Amount(WhaleHighSeverityTon, 1), FALSE) >>]
      [] k = 4 -> [iterable |-> TRUE, txs |->
            << RawTx(h, 1, NoAddress, NoAddress, FALSE, Amount(0, 0), TRUE),
               RawTx(h, 2, NoAddress, "EQb", TRUE,
                     Amount(WHALE_ALERT_THRESHOLD_TON, 0), FALSE),
               RawTx(h, 3, "EQa", "EQb", FALSE, Amount(0, 0), FALSE),
               RawTx(h, 4, "EQa", "EQb", TRUE, Amount(5, 0), FALSE) >>]
      [] k = 5 -> [iterable |-> TRUE, txs |-> << >>]
      [] OTHER -> [iterable |-> FALSE, txs |-> << >>]

\* the block the chain holds at height h
ChainBlock(h) == BlockOfKind(((h - 1 + chain_offset) % NumBlockKinds) + 1, h)

Heights == (TON_INDEXER_START_BLOCK + 1) .. MaxHeight

----------------------------------------------------------------------------
(* Transaction Extractor: process_transaction's pure part *)

\* int(in_msg.get("value", 0))
ValueOf(tx) == IF tx.has_value THEN tx.value ELSE Amount(0, 0)

\* tx.get("in_msg", {}).get(...) raises on "in_msg": null
ExtractRaises(tx) == tx.in_msg_null

\* "if value_ton < 1.0: return"
IsDust(tx) == TonLess(ValueOf(tx), DustThresholdTon)

\* "if value_ton >= settings.WHALE_ALERT_THRESHOLD_TON"
IsWhale(v) == TonAtLeast(v, WHALE_ALERT_THRESHOLD_TON)

\* "high" if tx_data["value_ton"] > 1000000 else "medium"
WhaleSeverity(v) == IF TonGreater(v, WhaleHighSeverityTon) THEN "high" ELSE "medium"

\* transaction_data with the latest height the client reported as "block"
TransactionDataAtTip(tx, cursor) ==
    [hash |-> tx.hash, source |-> tx.source, destination |-> tx.destination,
     value |-> ValueOf(tx), block |-> latest_block]

\* transaction_data (timestamp, datetime and type left out)
TransactionData(tx, cursor) ==
    [hash |-> tx.hash, source |-> tx.source, destination |-> tx.destination,
     value |-> ValueOf(tx), block |-> cursor]

\* whale_alert = {**tx_data, alert_type, severity, detected_at}
WhaleAlert(td) ==
    [hash |-> td.hash, source |-> td.source, destination |-> td.destination,
     value |-> td.value, block |-> td.block,
     alert_type |-> "whale_movement", severity |-> WhaleSeverity(td.value)]

NoTxData == [hash |-> <<0, 0>>, source |-> NoAddress, destination |-> NoAddress,
             value |-> Amount(0, 0), block |-> 0]

NoTransactions == [iterable |-> TRUE, txs |-> << >>]

----------------------------------------------------------------------------
(* Init: the indexer after construction *)

InitIndexer ==
    /\ is_running = FALSE
    /\ last_processed_block = TON_INDEXER_START_BLOCK
    /\ kafka_producer = "none"
    /\ session = "none"
    /\ pc = "idle"
    /\ latest_block = 0
    /\ transactions = NoTransactions
    /\ tx_i = 1
    /\ tx_data = NoTxData
    /\ stop_pc = "idle"
    /\ chain_offset \in 0 .. (NumBlockKinds - 1)
    /\ topic_transactions = << >>
    /\ topic_whale_alerts = << >>
    /\ fetch_ok = {}
    /\ fetch_err = {}

----------------------------------------------------------------------------
(* start() and stop() *)

\* start(): producer started, session opened, is_running set
Start ==
    /\ kafka_producer = "none"
    /\ kafka_producer' = "open"
    /\ session' = "open"
    /\ is_running' = TRUE
    /\ UNCHANGED <<last_processed_block, pc, latest_block, transactions, tx_i,
                   tx_data, stop_pc, chain_offset, topic_transactions,
                   topic_whale_alerts, fetch_ok, fetch_err>>
    /\ UNCHANGED <<detVars, sigVars, offVars>>

\* stop(), up to the first suspension: is_running cleared and the producer
\* marked closed (AIOKafkaProducer.stop() closes before it first suspends)
StopProducer ==
    /\ stop_pc = "idle"
    /\ kafka_producer # "none"
    /\ is_running' = FALSE
    /\ kafka_producer' = "closed"
    /\ stop_pc' = "closing"
    /\ UNCHANGED <<last_processed_block, session, pc, latest_block, transactions,
                   tx_i, tx_data, chain_offset, topic_transactions,
                   topic_whale_alerts, fetch_ok, fetch_err>>
    /\ UNCHANGED <<detVars, sigVars, offVars>>

\* stop(), after the producer has stopped: the session is closed
StopSession ==
    /\ stop_pc = "closing"
    /\ session' = "closed"
    /\ stop_pc' = "done"
    /\ UNCHANGED <<is_running, last_processed_block, kafka_producer, pc,
                   latest_block, transactions, tx_i, tx_data, chain_offset,
                   topic_transactions, topic_whale_alerts, fetch_ok, fetch_err>>
    /\ UNCHANGED <<detVars, sigVars, offVars>>

----------------------------------------------------------------------------
(* run() *)

\* run() is called
RunBegin ==
    /\ pc = "idle"
    /\ pc' = "while_running"
    /\ UNCHANGED <<is_running, last_processed_block, kafka_producer, session,
                   latest_block, transactions, tx_i, tx_data, stop_pc,
                   chain_offset, topic_transactions, topic_whale_alerts,
                   fetch_ok, fetch_err>>
    /\ UNCHANGED <<detVars, sigVars, offVars>>

\* "while True:"
WhileRunningForever ==
    /\ pc = "while_running"
    /\ pc' = "get_latest"
    /\ UNCHANGED <<is_running, last_processed_block, kafka_producer, session,
                   latest_block, transactions, tx_i, tx_data, stop_pc,
                   chain_offset, topic_transactions, topic_whale_alerts,
                   fetch_ok, fetch_err>>
    /\ UNCHANGED <<detVars, sigVars, offVars>>

\* "while self.is_running:"
WhileRunning ==
    /\ pc = "while_running"
    /\ pc' = IF is_running THEN "get_latest" ELSE "returned"
    /\ UNCHANGED <<is_running, last_processed_block, kafka_producer, session,
                   latest_block, transactions, tx_i, tx_data, stop_pc,
                   chain_offset, topic_transactions, topic_whale_alerts,
                   fetch_ok, fetch_err>>
    /\ UNCHANGED <<detVars, sigVars, offVars>>

\* get_latest_block(): the seqno the client answers (a missing "last" or
\* "seqno" gives 0), or, when the request raises, last_processed_block
GetLatestBlock ==
    /\ pc = "get_latest"
    /\ \/ /\ session = "open"
          /\ \E seqno \in 0 .. MaxHeight : latest_block' = seqno
       \/ latest_block' = last_processed_block
    /\ pc' = "while_blocks"
    /\ UNCHANGED <<is_running, last_processed_block, kafka_producer, session,
                   transactions, tx_i, tx_data, stop_pc, chain_offset,
                   topic_transactions, topic_whale_alerts, fetch_ok, fetch_err>>
    /\ UNCHANGED <<detVars, sigVars, offVars>>

\* WhileBlocks with the cursor re-synchronised to a lower reported height
WhileBlocksRewind ==
    /\ pc = "while_blocks"
    /\ IF last_processed_block < latest_block
         THEN /\ last_processed_block' = last_processed_block + 1
              /\ pc' = "get_txs"
         ELSE /\ pc' = "sleep_poll"
              /\ last_processed_block' = latest_block
    /\ UNCHANGED <<is_running, kafka_producer, session, latest_block,
                   transactions, tx_i, tx_data, stop_pc, chain_offset,
                   topic_transactions, topic_whale_alerts, fetch_ok, fetch_err>>
    /\ UNCHANGED <<detVars, sigVars, offVars>>

\* "while self.last_processed_block < latest_block:
\*      self.last_processed_block += 1"
WhileBlocks ==
    /\ pc = "while_blocks"
    /\ IF last_processed_block < latest_block
         THEN /\ last_processed_block' = last_processed_block + 1
              /\ pc' = "get_txs"
         ELSE /\ pc' = "sleep_poll"
              /\ UNCHANGED last_processed_block
    /\ UNCHANGED <<is_running, kafka_producer, session, latest_block,
                   transactions, tx_i, tx_data, stop_pc, chain_offset,
                   topic_transactions, topic_whale_alerts, fetch_ok, fetch_err>>
    /\ UNCHANGED <<detVars, sigVars, offVars>>

\* get_block_transactions(self.last_processed_block): the block's payload,
\* or [] when the request raises
GetBlockTransactions ==
    /\ pc = "get_txs"
    /\ \/ /\ session = "open"
          /\ transactions' = ChainBlock(last_processed_block)
          /\ fetch_ok' = fetch_ok \cup {last_processed_block}
          /\ UNCHANGED fetch_err
       \/ /\ transactions' = NoTransactions
          /\ fetch_err' = fetch_err \cup {last_processed_block}
          /\ UNCHANGED fetch_ok
    /\ tx_i' = 1
    /\ pc' = "for_tx"
    /\ UNCHANGED <<is_running, last_processed_block, kafka_producer, session,
                   latest_block, tx_data, stop_pc, chain_offset,
                   topic_transactions, topic_whale_alerts>>
    /\ UNCHANGED <<detVars, sigVars, offVars>>

\* ForRaises without run()'s handler: the exception ends run()
ForRaisesUnhandled ==
    /\ pc = "for_tx"
    /\ ~transactions.iterable
    /\ pc' = "returned"
    /\ UNCHANGED <<is_running, last_processed_block, kafka_producer, session,
                   latest_block, transactions, tx_i, tx_data, stop_pc,
                   chain_offset, topic_transactions, topic_whale_alerts,
                   fetch_ok, fetch_err>>
    /\ UNCHANGED <<detVars, sigVars, offVars>>

\* "for tx in transactions:" over a payload that is no list raises, and
\* run()'s handler logs and sleeps
ForRaises ==
    /\ pc = "for_tx"
    /\ ~transactions.iterable
    /\ pc' = "sleep_error"
    /\ UNCHANGED <<is_running, last_processed_block, kafka_producer, session,
                   latest_block, transactions, tx_i, tx_data, stop_pc,
                   chain_offset, topic_transactions, topic_whale_alerts,
                   fetch_ok, fetch_err>>
    /\ UNCHANGED <<detVars, sigVars, offVars>>

\* the for loop is exhausted: "Processed block ..." and the short sleep
ForDone ==
    /\ pc = "for_tx"
    /\ transactions.iterable
    /\ tx_i > Len(transactions.txs)
    /\ pc' = "sleep_block"
    /\ UNCHANGED <<is_running, last_processed_block, kafka_producer, session,
                   latest_block, transactions, tx_i, tx_data, stop_pc,
                   chain_offset, topic_transactions, topic_whale_alerts,
                   fetch_ok, fetch_err>>
    /\ UNCHANGED <<detVars, sigVars, offVars>>

\* ProcessTransaction with the send in a handler of its own: a send that
\* raises is logged and the whale check follows all the same
ProcessTransactionAlertsAnyway ==
    /\ pc = "for_tx"
    /\ transactions.iterable
    /\ tx_i <= Len(transactions.txs)
    /\ LET tx == transactions.txs[tx_i]
           td == TransactionData(tx, last_processed_block)
       IN  \/ \* extraction raises, or dust: the call ends
              /\ ExtractRaises(tx) \/ IsDust(tx)
              /\ tx_i' = tx_i + 1
              /\ UNCHANGED <<pc, tx_data, topic_transactions>>
           \/ \* the send is accepted
              /\ ~ExtractRaises(tx) /\ ~IsDust(tx)
              /\ kafka_producer = "open"
              /\ topic_transactions' = Append(topic_transactions, td)
              /\ IF IsWhale(td.value)
                   THEN /\ pc' = "whale_alert"
                        /\ tx_data' = td
                        /\ UNCHANGED tx_i
                   ELSE /\ tx_i' = tx_i + 1
                        /\ UNCHANGED <<pc, tx_data>>
           \/ \* the send raises
              /\ ~ExtractRaises(tx) /\ ~IsDust(tx)
              /\ UNCHANGED topic_transactions
              /\ IF IsWhale(td.value)
                   THEN /\ pc' = "whale_alert"
                        /\ tx_data' = td
                        /\ UNCHANGED tx_i
                   ELSE /\ tx_i' = tx_i + 1
                        /\ UNCHANGED <<pc, tx_data>>
    /\ UNCHANGED <<is_running, last_processed_block, kafka_producer, session,
                   latest_block, transactions, stop_pc, chain_offset,
                   topic_whale_alerts, fetch_ok, fetch_err>>
    /\ UNCHANGED <<detVars, sigVars, offVars>>

\* ProcessTransaction without its handler: an exception leaves the for loop
\* and reaches run()'s handler
ProcessTransactionUnhandled ==
    /\ pc = "for_tx"
    /\ transactions.iterable
    /\ tx_i <= Len(transactions.txs)
    /\ LET tx == transactions.txs[tx_i]
           td == TransactionData(tx, last_processed_block)
       IN  \/ \* extraction raises
              /\ ExtractRaises(tx)
              /\ pc' = "sleep_error"
              /\ UNCHANGED <<tx_i, tx_data, topic_transactions>>
           \/ \* dust: the call ends
              /\ ~ExtractRaises(tx) /\ IsDust(tx)
              /\ tx_i' = tx_i + 1
              /\ UNCHANGED <<pc, tx_data, topic_transactions>>
           \/ \* the send is accepted
              /\ ~ExtractRaises(tx) /\ ~IsDust(tx)
              /\ kafka_producer = "open"
              /\ topic_transactions' = Append(topic_transactions, td)
              /\ IF IsWhale(td.value)
                   THEN /\ pc' = "whale_alert"
                        /\ tx_data' = td
                        /\ UNCHANGED tx_i
                   ELSE /\ tx_i' = tx_i + 1
                        /\ UNCHANGED <<pc, tx_data>>
           \/ \* the send raises
              /\ ~ExtractRaises(tx) /\ ~IsDust(tx)
              /\ pc' = "sleep_error"
              /\ UNCHANGED <<tx_i, tx_data, topic_transactions>>
    /\ UNCHANGED <<is_running, last_processed_block, kafka_producer, session,
                   latest_block, transactions, stop_pc, chain_offset,
                   topic_whale_alerts, fetch_ok, fetch_err>>
    /\ UNCHANGED <<detVars, sigVars, offVars>>

\* process_transaction(tx) up to and including the send to ton-transactions.
\* Every exception is caught by its handler, which ends the call.
ProcessTransaction ==
    /\ pc = "for_tx"
    /\ transactions.iterable
    /\ tx_i <= Len(transactions.txs)
    /\ LET tx == transactions.txs[tx_i]
           td == TransactionData(tx, last_processed_block)
       IN  \/ \* extraction raises, or dust: the call ends
              /\ ExtractRaises(tx) \/ IsDust(tx)
              /\ tx_i' = tx_i + 1
              /\ UNCHANGED <<pc, tx_data, topic_transactions>>
           \/ \* the send is accepted
              /\ ~ExtractRaises(tx) /\ ~IsDust(tx)
              /\ kafka_producer = "open"
              /\ topic_transactions' = Append(topic_transactions, td)
              /\ IF IsWhale(td.value)
                   THEN /\ pc' = "whale_alert"
                        /\ tx_data' = td
                        /\ UNCHANGED tx_i
                   ELSE /\ tx_i' = tx_i + 1
                        /\ UNCHANGED <<pc, tx_data>>
           \/ \* the send raises
              /\ ~ExtractRaises(tx) /\ ~IsDust(tx)
              /\ tx_i' = tx_i + 1
              /\ UNCHANGED <<pc, tx_data, topic_transactions>>
    /\ UNCHANGED <<is_running, last_processed_block, kafka_producer, session,
                   latest_block, transactions, stop_pc, chain_offset,
                   topic_whale_alerts, fetch_ok, fetch_err>>
    /\ UNCHANGED <<detVars, sigVars, offVars>>

\* process_whale_alert(transaction_data): the send to whale-alerts, accepted
\* or raising; the log line after it raises on a missing address; all of it
\* is caught by process_transaction's handler
ProcessWhaleAlert ==
    /\ pc = "whale_alert"
    /\ \/ /\ kafka_producer = "open"
          /\ topic_whale_alerts' = Append(topic_whale_alerts, WhaleAlert(tx_data))
       \/ UNCHANGED topic_whale_alerts
    /\ tx_i' = tx_i + 1
    /\ tx_data' = NoTxData
    /\ pc' = "for_tx"
    /\ UNCHANGED <<is_running, last_processed_block, kafka_producer, session,
                   latest_block, transactions, stop_pc, chain_offset,
                   topic_transactions, fetch_ok, fetch_err>>
    /\ UNCHANGED <<detVars, sigVars, offVars>>

\* the block loop as an "if": one block, then the poll interval
SleepBlockThenPoll ==
    /\ pc = "sleep_block"
    /\ pc' = "sleep_poll"
    /\ UNCHANGED <<is_running, last_processed_block, kafka_producer, session,
                   latest_block, transactions, tx_i, tx_data, stop_pc,
                   chain_offset, topic_transactions, topic_whale_alerts,
                   fetch_ok, fetch_err>>
    /\ UNCHANGED <<detVars, sigVars, offVars>>

\* "await asyncio.sleep(0.1)" at the end of a block
SleepBlock ==
    /\ pc = "sleep_block"
    /\ pc' = "while_blocks"
    /\ UNCHANGED <<is_running, last_processed_block, kafka_producer, session,
                   latest_block, transactions, tx_i, tx_data, stop_pc,
                   chain_offset, topic_transactions, topic_whale_alerts,
                   fetch_ok, fetch_err>>
    /\ UNCHANGED <<detVars, sigVars, offVars>>

\* "await asyncio.sleep(5)" when no block is pending
SleepPoll ==
    /\ pc = "sleep_poll"
    /\ pc' = "while_running"
    /\ UNCHANGED <<is_running, last_processed_block, kafka_producer, session,
                   latest_block, transactions, tx_i, tx_data, stop_pc,
                   chain_offset, topic_transactions, topic_whale_alerts,
                   fetch_ok, fetch_err>>
    /\ UNCHANGED <<detVars, sigVars, offVars>>

\* "await asyncio.sleep(10)" in run()'s exception handler
SleepError ==
    /\ pc = "sleep_error"
    /\ pc' = "while_running"
    /\ UNCHANGED <<is_running, last_processed_block, kafka_producer, session,
                   latest_block, transactions, tx_i, tx_data, stop_pc,
                   chain_offset, topic_transactions, topic_whale_alerts,
                   fetch_ok, fetch_err>>
    /\ UNCHANGED <<detVars, sigVars, offVars>>

NextIndexer ==
    \/ Start
    \/ StopProducer
    \/ StopSession
    \/ RunBegin
    \/ WhileRunning
    \/ GetLatestBlock
    \/ WhileBlocks
    \/ GetBlockTransactions
    \/ ForRaises
    \/ ForDone
    \/ ProcessTransaction
    \/ ProcessWhaleAlert
    \/ SleepBlock
    \/ SleepPoll
    \/ SleepError

\* a step of run(), once it was called
IndexerRunStep ==
    \/ WhileRunning
    \/ GetLatestBlock
    \/ WhileBlocks
    \/ GetBlockTransactions
    \/ ForRaises
    \/ ForDone
    \/ ProcessTransaction
    \/ ProcessWhaleAlert
    \/ SleepBlock
    \/ SleepPoll
    \/ SleepError

----------------------------------------------------------------------------
(* AnomalyDetector.  Values are whole TON (value_ton); on these the code's  *)
(* float test "value > avg_value * 10" with avg_value = sum / len agrees    *)
(* with the exact test value * len > sum * 10.                              *)

\* a transaction dict: "value_ton" may be missing (tx.get("value_ton", 0))
DetTx(i, hasv, v) == [id |-> i, has_value_ton |-> hasv, value_ton |-> v]

\* tx.get("value_ton", 0)
GetValueTon(tx) == IF tx.has_value_ton THEN tx.value_ton ELSE 0

\* an anomaly dict (reason and detected_at left out)
Anomaly(t, txid, w, sev) ==
    [type |-> t, transaction |-> txid, wallet |-> w, severity |-> sev]

RECURSIVE SumRange(_, _, _)
\* the sum of value_ton over txs[lo .. hi], halving the range
SumRange(txs, lo, hi) ==
    IF lo > hi THEN 0
    ELSE IF lo = hi THEN GetValueTon(txs[lo])
    ELSE LET mid == (lo + hi) \div 2
         IN  SumRange(txs, lo, mid) + SumRange(txs, mid + 1, hi)

\* sum(tx.get("value_ton", 0) for tx in txs)
SumValueTon(txs) == SumRange(txs, 1, Len(txs))

\* IsLargeTransaction with ">=" for ">"
IsLargeTransactionAtLeast(value, total, n) == value * n >= total * LargeTxFactor

\* "if value > avg_value * 10", avg_value = total / n
IsLargeTransaction(value, total, n) == value * n > total * LargeTxFactor

\* the for loop of detect_transaction_anomalies: one anomaly, in batch
\* order, for each transaction the test selects
LargeTransactionScan(txs, total) ==
    LET large(tx) == IsLargeTransaction(GetValueTon(tx), total, Len(txs))
        hits == SelectSeq(txs, large)
    IN  [i \in 1 .. Len(hits) |->
            Anomaly("large_transaction", hits[i].id, "", "high")]

\* detect_transaction_anomalies(transactions)
TransactionAnomalies(txs) ==
    IF txs = << >> THEN << >>
    ELSE LargeTransactionScan(txs, SumValueTon(txs))

\* IsHighFrequency with ">=" for ">"
IsHighFrequencyAtLeast(n) == n >= HighFrequencyLimit

\* "if len(recent_activity) > 100"
IsHighFrequency(n) == n > HighFrequencyLimit

\* "if total_value > 1000000"
IsLargeVolume(total) == total > LargeVolumeTon

\* WalletAnomalies with the volume check as an "elif" of the frequency check
WalletAnomaliesElif(wallet, activity) ==
    IF activity = << >> THEN << >>
    ELSE IF IsHighFrequency(Len(activity))
           THEN <<Anomaly("high_frequency_trading", 0, wallet, "medium")>>
           ELSE IF SumValueTon(activity) > LargeVolumeTon
                  THEN <<Anomaly("large_volume", 0, wallet, "high")>>
                  ELSE << >>

\* detect_wallet_anomalies(wallet, recent_activity)
WalletAnomalies(wallet, activity) ==
    IF activity = << >> THEN << >>
    ELSE (IF IsHighFrequency(Len(activity))
            THEN <<Anomaly("high_frequency_trading", 0, wallet, "medium")>>
            ELSE << >>)
         \o
         (IF IsLargeVolume(SumValueTon(activity))
            THEN <<Anomaly("large_volume", 0, wallet, "high")>>
            ELSE << >>)

\* d.get(k, default) on a dict kept as a function
DictGet(d, k, default) == IF k \in DOMAIN d THEN d[k] ELSE default

\* network_stats: "transaction_volume" may be missing
NetStats(hasv, v) == [has_volume |-> hasv, transaction_volume |-> v]

\* IsHighNetworkActivity with ">=" for ">"
IsHighNetworkActivityAtLeast(tx_volume, baseline) ==
    tx_volume >= DictGet(baseline, "avg_tx_volume", 0) * NetworkFactor

\* "if tx_volume > self.baseline_metrics.get("avg_tx_volume", 0) * 3"
IsHighNetworkActivity(tx_volume, baseline) ==
    tx_volume > DictGet(baseline, "avg_tx_volume", 0) * NetworkFactor

\* detect_network_anomalies(network_stats)
NetworkAnomalies(stats, baseline) ==
    LET tx_volume == IF stats.has_volume THEN stats.transaction_volume ELSE 0
    IN  IF IsHighNetworkActivity(tx_volume, baseline)
          THEN <<Anomaly("high_network_activity", 0, "", "medium")>>
          ELSE << >>

(* the inputs the detector is called with *)

Fill(k, v) == [i \in 1 .. k |-> v]

MkTxs(vals) == [i \in 1 .. Len(vals) |-> DetTx(i, TRUE, vals[i])]

BatchValues == {0, 1, 50}

ShortBatches == UNION {[1 .. n -> BatchValues] : n \in 0 .. MaxBatchLen}

\* k equal transactions and one more: around the tenfold mean, and the two
\* batches of the specification's scenarios
FilledBatches ==
    {Fill(k, v) \o <<w>> : k \in {4, 10, 11, 100},
                           v \in {1, 10}, w \in {50, 100, 110, 2000}}

TxBatchInputs ==
    {MkTxs(vals) : vals \in ShortBatches \cup FilledBatches}
    \cup {<<DetTx(1, FALSE, 0), DetTx(2, TRUE, 1)>>}

WalletCounts == {0, 1, HighFrequencyLimit - 1, HighFrequencyLimit,
                 HighFrequencyLimit + 1, HighFrequencyLimit + 2}

WalletValues == {0, 1, 9901, 10000, LargeVolumeTon \div 2, LargeVolumeTon,
                 LargeVolumeTon + 1}

WalletActivityInputs ==
    {MkTxs(Fill(k, v)) : k \in WalletCounts, v \in WalletValues}

NetStatsInputs ==
    {NetStats(TRUE, v) : v \in {0, 1, 3, 1000}} \cup {NetStats(FALSE, 0)}

\* det_stats when the last call was not the network check
NoNetStats == NetStats(FALSE, 0)

InitDetector ==
    /\ baseline_metrics = << >>
    /\ det_op = "none"
    /\ det_batch = << >>
    /\ det_stats = NoNetStats
    /\ det_result = << >>
    /\ net_observed = 0

\* a call of detect_transaction_anomalies
DetectTransactionAnomalies ==
    /\ \E txs \in TxBatchInputs :
          /\ det_batch' = txs
          /\ det_result' = TransactionAnomalies(txs)
    /\ det_op' = "transaction"
    /\ det_stats' = NoNetStats
    /\ UNCHANGED <<baseline_metrics, net_observed>>
    /\ UNCHANGED <<idxVars, sigVars, offVars>>

\* a call of detect_wallet_anomalies
DetectWalletAnomalies ==
    /\ \E activity \in WalletActivityInputs :
          /\ det_batch' = activity
          /\ det_result' = WalletAnomalies("EQw", activity)
    /\ det_op' = "wallet"
    /\ det_stats' = NoNetStats
    /\ UNCHANGED <<baseline_metrics, net_observed>>
    /\ UNCHANGED <<idxVars, sigVars, offVars>>

\* a call of detect_network_anomalies; net_observed counts the calls
DetectNetworkAnomalies ==
    /\ net_observed < MaxNetCalls
    /\ \E stats \in NetStatsInputs :
          /\ det_stats' = stats
          /\ det_result' = NetworkAnomalies(stats, baseline_metrics)
    /\ det_op' = "network"
    /\ net_observed' = net_observed + 1
    /\ det_batch' = << >>
    /\ UNCHANGED baseline_metrics
    /\ UNCHANGED <<idxVars, sigVars, offVars>>

NextDetector ==
    \/ DetectTransactionAnomalies
    \/ DetectWalletAnomalies
    \/ DetectNetworkAnomalies

----------------------------------------------------------------------------
(* SignalGenerator.  Confidence is kept in hundredths (75 is 0.75).        *)

\* "exchange" in destination.lower()
MentionsExchange(destination) == destination \in {"EQexchange", "EXCHANGE1"}

\* a whale transaction as posted to generate_whale_signal (value_ton whole)
WhaleTx(h, src, dst, v) ==
    [hash |-> h, source |-> src, destination |-> dst, value_ton |-> v]

\* a signal (title, description, creator, tags, related_entities left out);
\* data is the whale transaction's hash or the anomaly's wallet
Signal(st, sent, conf, sev, at, dt, dref) ==
    [signal_type |-> st, sentiment |-> sent, confidence |-> conf,
     severity |-> sev, created_at |-> at, data_type |-> dt, data_ref |-> dref]

\* the signal generate_whale_signal builds
WhaleSignal(whale_tx, at) ==
    LET to_exchange == MentionsExchange(whale_tx.destination)
    IN  Signal(IF to_exchange THEN "whale_to_exchange" ELSE "whale_accumulation",
               IF to_exchange THEN "bearish" ELSE "bullish",
               WhaleConfidence,
               IF whale_tx.value_ton > WhaleHighSeverityTon THEN "high" ELSE "medium",
               at, "whale_tx", whale_tx.hash)

\* the signal generate_anomaly_signal builds
AnomalySignal(anomaly, at) ==
    Signal("anomaly_detection", "neutral", AnomalyConfidence, anomaly.severity,
           at, anomaly.type, anomaly.wallet)

\* sentiment_data as posted to generate_sentiment_signal; a missing
\* "confidence" is has_confidence = FALSE
SentimentData(overall, hasc, conf) ==
    [overall_sentiment |-> overall, has_confidence |-> hasc, confidence |-> conf]

\* sentiment_data.get("confidence", 0.5)
SentimentConfidence(sentiment_data) ==
    IF sentiment_data.has_confidence THEN sentiment_data.confidence
                                     ELSE DefaultSentimentConfidence

\* the signal generate_sentiment_signal builds
SentimentSignal(sentiment_data, at) ==
    LET overall == sentiment_data.overall_sentiment
        confidence == SentimentConfidence(sentiment_data)
    IN  Signal("sentiment_analysis", overall, confidence,
               IF overall \in {"bullish", "bearish"}
                    /\ confidence > StrongSentimentConfidence
                 THEN "high" ELSE "low",
               at, "sentiment", overall)

\* "self.signal_history.append(signal)"
RecordSignal(history, signal) == Append(history, signal)

WhaleTxInputs ==
    {WhaleTx(hd[1], "EQa", hd[2], v) :
        hd \in {<<"tx1", "EQb">>, <<"tx2", "EQexchange">>},
        v \in {WHALE_ALERT_THRESHOLD_TON, WhaleHighSeverityTon + 1}}

AnomalyInputs ==
    { Anomaly("large_transaction", 1, "", "high"),
      Anomaly("high_frequency_trading", 0, "EQw", "medium"),
      Anomaly("large_volume", 0, "EQw", "high") }

\* sentiment summaries: a strong one, one at the 0.7 boundary, one without
\* a confidence, and two whose confidence lies outside [0, 1]
SentimentInputs ==
    { SentimentData("bullish", TRUE, StrongSentimentConfidence + 1),
      SentimentData("bullish", TRUE, StrongSentimentConfidence),
      SentimentData("neutral", FALSE, 0),
      SentimentData("bearish", TRUE, 150),
      SentimentData("neutral", TRUE, -20) }

\* lst[start:] of a Python list: a negative start counts from the end, and
\* a start outside the list is clipped to it
PySliceFrom(lst, start) ==
    LET n == Len(lst)
        first == IF start < 0
                   THEN (IF start + n < 0 THEN 0 ELSE start + n)
                   ELSE (IF start > n THEN n ELSE start)
    IN  SubSeq(lst, first + 1, n)

\* "return self.signal_history[-limit:]"
get_recent_signals(history, limit) == PySliceFrom(history, 0 - limit)

InitSignals ==
    /\ signal_history = << >>
    /\ now = 0
    /\ topic_signals = << >>
    /\ recent_limit = 0
    /\ recent_result = << >>

\* a call of generate_whale_signal
GenerateWhaleSignal ==
    /\ Len(signal_history) < MaxSignals
    /\ \E whale_tx \in WhaleTxInputs :
          signal_history' = RecordSignal(signal_history, WhaleSignal(whale_tx, now))
    /\ UNCHANGED <<now, topic_signals, recent_limit, recent_result>>
    /\ UNCHANGED <<idxVars, detVars, offVars>>

\* a call of generate_sentiment_signal
GenerateSentimentSignal ==
    /\ Len(signal_history) < MaxSignals
    /\ \E sentiment_data \in SentimentInputs :
          signal_history' =
              RecordSignal(signal_history, SentimentSignal(sentiment_data, now))
    /\ UNCHANGED <<now, topic_signals, recent_limit, recent_result>>
    /\ UNCHANGED <<idxVars, detVars, offVars>>

\* a call of generate_anomaly_signal
GenerateAnomalySignal ==
    /\ Len(signal_history) < MaxSignals
    /\ \E anomaly \in AnomalyInputs :
          signal_history' = RecordSignal(signal_history, AnomalySignal(anomaly, now))
    /\ UNCHANGED <<now, topic_signals, recent_limit, recent_result>>
    /\ UNCHANGED <<idxVars, detVars, offVars>>

\* time passes between two calls
Tick ==
    /\ now < MaxClock
    /\ now' = now + 1
    /\ UNCHANGED <<signal_history, topic_signals, recent_limit, recent_result>>
    /\ UNCHANGED <<idxVars, detVars, offVars>>

\* a call of get_recent_signals, by the route /signals/recent or by any other
\* holder of the generator
GetRecentSignals ==
    /\ \E limit \in 0 .. MaxLimit :
          /\ recent_limit' = limit
          /\ recent_result' = get_recent_signals(signal_history, limit)
    /\ UNCHANGED <<signal_history, now, topic_signals>>
    /\ UNCHANGED <<idxVars, detVars, offVars>>

NextSignals ==
    \/ GenerateWhaleSignal
    \/ GenerateSentimentSignal
    \/ GenerateAnomalySignal
    \/ GetRecentSignals
    \/ Tick

----------------------------------------------------------------------------
(* The off-chain pollers: NewsAggregator, TelegramMonitor, TwitterMonitor  *)
(* and GitHubMonitor.  poller_state[p] stands for the pair (session,       *)
(* kafka_producer) of poller p:                                            *)
(*   "new"      as constructed: both None                                  *)
(*   "disabled" start() returned early for want of a token: both None      *)
(*   "failed"   start() raised in kafka_producer.start(): the session is   *)
(*              open, the producer was never started                       *)
(*   "started"  both open                                                  *)
(*   "closing"  stop() has stopped the producer, the session is open       *)
(*   "stopped"  both closed                                                *)

Pollers == {"news", "telegram", "twitter", "github"}

\* the pollers that have a run() loop (TelegramMonitor has none)
Runners == {"news", "twitter", "github"}

\* the pollers whose start() returns early without its token
NeedsToken == {"telegram", "twitter"}

\* self.session.get(...) does not raise
SessionOpen(p) == poller_state[p] \in {"failed", "started", "closing"}

\* self.kafka_producer.send(...) can be accepted
ProducerOpen(p) == poller_state[p] = "started"

\* the number of fetch-and-publish rounds of one cycle: aggregate_news
\* gathers all feeds at once, the others loop over their queries / repos
NumSources(p) ==
    CASE p = "news" -> 1
      [] p = "twitter" -> NumSearchQueries
      [] p = "github" -> NumMonitoredRepos

\* the content key of an item: the poller, the query / repo it came from,
\* and the article URL / tweet id / commit SHA
ContentKey(p, src, id) == <<p, src, id>>

\* the key under which the activity metrics GitHubMonitor publishes are
\* counted (they are snapshots, no content: one key for all of them)
ActivityKey == <<"github", 0, "activity">>

ContentKeys ==
    { ContentKey("news", 1, "url1"), ContentKey("news", 1, "url2"),
      ContentKey("twitter", 1, "tweet1"), ContentKey("github", 1, "sha1") }

NewsKeys == ContentKeys \cup {ActivityKey}

\* what a fetch that does not fail may return: the TON-related articles of
\* the feeds, the tweets of a search, the commits of the last hour; only the
\* first query and the first repo have something to return
FetchResults(p, src) ==
    IF src > 1 THEN { << >> }
    ELSE CASE p = "news" ->
                 { << >>, <<ContentKey(p, src, "url1")>>,
                   <<ContentKey(p, src, "url1"), ContentKey(p, src, "url2")>> }
           [] p = "twitter" -> { << >>, <<ContentKey(p, src, "tweet1")>> }
           [] p = "github" -> { << >>, <<ContentKey(p, src, "sha1")>> }

\* run() without its handler: an exception ends the loop
RunHandlerExits(p) == "returned"

\* where run() goes when an exception leaves its try block:
\* "except Exception as e: logger.error(...); await asyncio.sleep(...)"
RunHandler(p) == "sleep_error"

InitPollers ==
    /\ poller_state = [p \in Pollers |-> "new"]
    /\ run_pc = [p \in Runners |-> "idle"]
    /\ run_src = [p \in Runners |-> 1]
    /\ run_items = [p \in Runners |-> << >>]
    /\ run_i = [p \in Runners |-> 1]
    /\ run_last = [p \in Runners |-> "none"]
    /\ cycles = 0
    /\ topic_news = [key \in NewsKeys |-> 0]

\* where run() stands once the items fetched at position at are all
\* published: aggregate_news returns and run() sleeps until the next cycle;
\* TwitterMonitor sleeps for the rate limit; GitHubMonitor fetches the repo's
\* activity and, after publishing it, sleeps for the rate limit
AfterPublish(p, at) ==
    CASE p = "news" -> "sleep_cycle"
      [] p = "twitter" -> "rate_sleep"
      [] p = "github" -> IF at = "publish" THEN "fetch_activity" ELSE "rate_sleep"

\* run_last once run() stands at to
LastAt(p, to) == IF to = "sleep_cycle" THEN "ok" ELSE run_last[p]

\* "while True: try:" a cycle begins, at the first query / repo, when run()
\* is called and when a sleep between two cycles (300 / 600 / 3600 s) or the
\* handler's retry delay (60 / 60 / 300 s) is over
PollerCycle(p) ==
    /\ run_pc[p] \in {"idle", "sleep_cycle", "sleep_error"}
    /\ cycles < MaxCycles
    /\ cycles' = cycles + 1
    /\ run_src' = [run_src EXCEPT ![p] = 1]
    /\ run_pc' = [run_pc EXCEPT ![p] = "fetch"]
    /\ UNCHANGED <<run_items, run_i, run_last, topic_news>>
    /\ UNCHANGED <<idxVars, detVars, sigVars, appVars>>

\* "while True: try:" the same, in a run() whose poller was stopped: the loop
\* tests nothing that stop() sets, and the sleep ends as before. These cycles
\* publish nothing and are not counted.
PollerCycleStopped(p) ==
    /\ run_pc[p] \in {"sleep_cycle", "sleep_error"}
    /\ poller_state[p] = "stopped"
    /\ run_src' = [run_src EXCEPT ![p] = 1]
    /\ run_pc' = [run_pc EXCEPT ![p] = "fetch"]
    /\ UNCHANGED <<cycles, run_items, run_i, run_last, topic_news>>
    /\ UNCHANGED <<idxVars, detVars, sigVars, appVars>>

\* fetch_rss_feed (gathered and filtered by aggregate_news) / search_tweets /
\* fetch_repo_commits: the items the source returns, or [] when the request
\* raises, which the fetch itself catches; the for loop over no item is over
\* at once
PollerFetch(p) ==
    /\ run_pc[p] = "fetch"
    /\ \E items \in (IF SessionOpen(p) THEN FetchResults(p, run_src[p])
                                       ELSE { << >> }) :
          LET to == IF items = << >> THEN AfterPublish(p, "publish")
                                     ELSE "publish"
          IN  /\ run_items' = [run_items EXCEPT ![p] = items]
              /\ run_pc' = [run_pc EXCEPT ![p] = to]
              /\ run_last' = [run_last EXCEPT ![p] = LastAt(p, to)]
    /\ UNCHANGED <<run_src, run_i, cycles, topic_news>>
    /\ UNCHANGED <<idxVars, detVars, sigVars, appVars>>

\* fetch_repo_activity: the repo's metrics, or {} when the request raises
\* ("if activity:" then skips the send)
GitHubActivity ==
    /\ run_pc["github"] = "fetch_activity"
    /\ \/ /\ SessionOpen("github")
          /\ run_src["github"] = 1
          /\ run_items' = [run_items EXCEPT !["github"] = <<ActivityKey>>]
          /\ run_pc' = [run_pc EXCEPT !["github"] = "publish_activity"]
       \/ /\ run_pc' = [run_pc EXCEPT !["github"] = "rate_sleep"]
          /\ UNCHANGED run_items
    /\ UNCHANGED <<run_src, run_i, run_last, cycles, topic_news>>
    /\ UNCHANGED <<idxVars, detVars, sigVars, appVars>>

\* "await self.kafka_producer.send(settings.KAFKA_TOPIC_NEWS, ...)" for the
\* next item: accepted, and after the last item the for loop is over; or
\* raising, which run()'s handler catches
PollerPublish(p) ==
    /\ run_pc[p] \in {"publish", "publish_activity"}
    /\ \/ /\ ProducerOpen(p)
          /\ topic_news' = [topic_news EXCEPT ![run_items[p][run_i[p]]] = @ + 1]
          /\ IF run_i[p] < Len(run_items[p])
               THEN /\ run_i' = [run_i EXCEPT ![p] = @ + 1]
                    /\ UNCHANGED <<run_pc, run_items, run_last>>
               ELSE LET to == AfterPublish(p, run_pc[p])
                    IN  /\ run_pc' = [run_pc EXCEPT ![p] = to]
                        /\ run_last' = [run_last EXCEPT ![p] = LastAt(p, to)]
                        /\ run_items' = [run_items EXCEPT ![p] = << >>]
                        /\ run_i' = [run_i EXCEPT ![p] = 1]
       \/ /\ run_pc' = [run_pc EXCEPT ![p] = RunHandler(p)]
          /\ run_last' = [run_last EXCEPT ![p] = "error"]
          /\ run_items' = [run_items EXCEPT ![p] = << >>]
          /\ run_i' = [run_i EXCEPT ![p] = 1]
          /\ UNCHANGED topic_news
    /\ UNCHANGED <<run_src, cycles>>
    /\ UNCHANGED <<idxVars, detVars, sigVars, appVars>>

\* "await asyncio.sleep(1)" / "(2)" at the end of a query / repo: the for
\* loop goes to the next one or, exhausted, to the sleep between two cycles
PollerRateSleep(p) ==
    /\ run_pc[p] = "rate_sleep"
    /\ IF run_src[p] < NumSources(p)
         THEN /\ run_src' = [run_src EXCEPT ![p] = @ + 1]
              /\ run_pc' = [run_pc EXCEPT ![p] = "fetch"]
              /\ UNCHANGED run_last
         ELSE /\ run_pc' = [run_pc EXCEPT ![p] = "sleep_cycle"]
              /\ run_last' = [run_last EXCEPT ![p] = "ok"]
              /\ UNCHANGED run_src
    /\ UNCHANGED <<run_items, run_i, cycles, topic_news>>
    /\ UNCHANGED <<idxVars, detVars, sigVars, appVars>>

\* a step of poller p's run()
RunStep(p) ==
    \/ PollerCycle(p)
    \/ PollerCycleStopped(p)
    \/ PollerFetch(p)
    \/ p = "github" /\ GitHubActivity
    \/ PollerPublish(p)
    \/ PollerRateSleep(p)

NextPollers ==
    \/ \E p \in Runners : PollerCycle(p)
    \/ \E p \in Runners : PollerFetch(p)
    \/ GitHubActivity
    \/ \E p \in Runners : PollerPublish(p)
    \/ \E p \in Runners : PollerRateSleep(p)

----------------------------------------------------------------------------
(* lifespan() of api/main.py: start-up, serving, shutdown.  It acts on the *)
(* indexer's and the pollers' start() and stop().                          *)

\* the order of the start() and of the stop() calls
Components == <<"indexer", "news", "telegram", "twitter", "github">>

\* lifespan_pc after the start() / stop() of component number k is done
AfterStart(k) ==
    IF k < Len(Components) THEN <<"start", Components[k + 1]>> ELSE <<"serving">>

AfterStop(k) ==
    IF k < Len(Components) THEN <<"stop", Components[k + 1]>> ELSE <<"disconnect">>

IndexOf(c) == CHOOSE k \in 1 .. Len(Components) : Components[k] = c

InitLifespan == lifespan_pc = <<"connect">>

\* ton_client.connect(), vector_store.connect(), nlp_processor.initialize(),
\* market_analysis_agent.initialize(): done, or one raises and lifespan()
\* re-raises
LifespanConnect ==
    /\ lifespan_pc = <<"connect">>
    /\ lifespan_pc' \in {<<"start", Components[1]>>, <<"startup_failed">>}
    /\ UNCHANGED poller_state
    /\ UNCHANGED <<idxVars, detVars, sigVars, runVars>>

\* "await ton_indexer.start()": done, or kafka_producer.start() raises (the
\* producer is left created and not started) and lifespan() re-raises
LifespanStartIndexer ==
    /\ lifespan_pc = <<"start", "indexer">>
    /\ \/ /\ kafka_producer' = "open"
          /\ session' = "open"
          /\ is_running' = TRUE
          /\ lifespan_pc' = AfterStart(IndexOf("indexer"))
       \/ /\ kafka_producer' = "closed"
          /\ UNCHANGED <<session, is_running>>
          /\ lifespan_pc' = <<"startup_failed">>
    /\ UNCHANGED <<last_processed_block, pc, latest_block, transactions, tx_i,
                   tx_data, stop_pc, chain_offset, topic_transactions,
                   topic_whale_alerts, fetch_ok, fetch_err>>
    /\ UNCHANGED poller_state
    /\ UNCHANGED <<detVars, sigVars, runVars>>

\* "await <poller>.start()": done; or, for want of its token, returned early;
\* or kafka_producer.start() raises and lifespan() re-raises
LifespanStartPoller(p) ==
    /\ lifespan_pc = <<"start", p>>
    /\ \/ /\ poller_state' = [poller_state EXCEPT ![p] = "started"]
          /\ lifespan_pc' = AfterStart(IndexOf(p))
       \/ /\ p \in NeedsToken
          /\ poller_state' = [poller_state EXCEPT ![p] = "disabled"]
          /\ lifespan_pc' = AfterStart(IndexOf(p))
       \/ /\ poller_state' = [poller_state EXCEPT ![p] = "failed"]
          /\ lifespan_pc' = <<"startup_failed">>
    /\ UNCHANGED <<idxVars, detVars, sigVars, runVars>>

\* "yield" returns: the shutdown begins
LifespanShutdown ==
    /\ lifespan_pc = <<"serving">>
    /\ lifespan_pc' = <<"stop", Components[1]>>
    /\ UNCHANGED poller_state
    /\ UNCHANGED <<idxVars, detVars, sigVars, runVars>>

\* "await ton_indexer.stop()", up to its first suspension
LifespanStopIndexer ==
    /\ lifespan_pc = <<"stop", "indexer">>
    /\ stop_pc = "idle"
    /\ is_running' = FALSE
    /\ kafka_producer' = "closed"
    /\ stop_pc' = "closing"
    /\ UNCHANGED <<last_processed_block, session, pc, latest_block, transactions,
                   tx_i, tx_data, chain_offset, topic_transactions,
                   topic_whale_alerts, fetch_ok, fetch_err>>
    /\ UNCHANGED <<lifespan_pc, poller_state>>
    /\ UNCHANGED <<detVars, sigVars, runVars>>

\* "await ton_indexer.stop()", after the producer has stopped
LifespanIndexerStopped ==
    /\ lifespan_pc = <<"stop", "indexer">>
    /\ stop_pc = "closing"
    /\ session' = "closed"
    /\ stop_pc' = "done"
    /\ lifespan_pc' = AfterStop(IndexOf("indexer"))
    /\ UNCHANGED <<is_running, last_processed_block, kafka_producer, pc,
                   latest_block, transactions, tx_i, tx_data, chain_offset,
                   topic_transactions, topic_whale_alerts, fetch_ok, fetch_err>>
    /\ UNCHANGED poller_state
    /\ UNCHANGED <<detVars, sigVars, runVars>>

\* "await <poller>.stop()": a poller without producer has nothing to stop;
\* else the producer is stopped and then, in a second step, the session (if
\* the poller has one) closed
LifespanStopPoller(p) ==
    /\ lifespan_pc = <<"stop", p>>
    /\ \/ /\ poller_state[p] = "disabled"
          /\ lifespan_pc' = AfterStop(IndexOf(p))
          /\ UNCHANGED poller_state
       \/ /\ poller_state[p] = "started"
          /\ IF p = "telegram"
               THEN /\ poller_state' = [poller_state EXCEPT ![p] = "stopped"]
                    /\ lifespan_pc' = AfterStop(IndexOf(p))
               ELSE /\ poller_state' = [poller_state EXCEPT ![p] = "closing"]
                    /\ UNCHANGED lifespan_pc
       \/ /\ poller_state[p] = "closing"
          /\ poller_state' = [poller_state EXCEPT ![p] = "stopped"]
          /\ lifespan_pc' = AfterStop(IndexOf(p))
    /\ UNCHANGED <<idxVars, detVars, sigVars, runVars>>

\* vector_store.disconnect(), ton_client.disconnect(): "Shutdown complete"
LifespanDisconnect ==
    /\ lifespan_pc = <<"disconnect">>
    /\ lifespan_pc' = <<"down">>
    /\ UNCHANGED poller_state
    /\ UNCHANGED <<idxVars, detVars, sigVars, runVars>>

NextLifespan ==
    \/ LifespanConnect
    \/ LifespanStartIndexer
    \/ \E p \in Pollers : LifespanStartPoller(p)
    \/ LifespanShutdown
    \/ LifespanStopIndexer
    \/ LifespanIndexerStopped
    \/ \E p \in Pollers : LifespanStopPoller(p)
    \/ LifespanDisconnect

----------------------------------------------------------------------------
(* Notions the properties below are stated in *)

\* run() is fetching or processing the block at the cursor
BlockInFlight ==
    \/ pc = "get_txs"
    \/ pc = "whale_alert"
    \/ pc = "for_tx" /\ (~transactions.iterable \/ tx_i <= Len(transactions.txs))

\* the cursor has moved past height h
Passed(h) == h < last_processed_block

\* the positions of a topic holding a record of the transaction with this hash
RecordsOf(topic, hash) == {k \in 1 .. Len(topic) : topic[k].hash = hash}

\* the transactions of the block at height h that are not dust
NonDustTxs(h) ==
    LET txs == ChainBlock(h).txs
    IN  {i \in 1 .. Len(txs) : ~ExtractRaises(txs[i]) /\ ~IsDust(txs[i])}

\* the type of every anomaly of a result, as a set
AnomalyTypes(result) == {result[k].type : k \in 1 .. Len(result)}

\* the positions of a result holding an anomaly of type t
AnomaliesOfType(result, t) == {k \in 1 .. Len(result) : result[k].type = t}

\* the key under which the specification de-duplicates a signal: its type,
\* its subject and its detection window (here the instant of creation)
DedupKey(sig) == <<sig.signal_type, sig.data_type, sig.data_ref, sig.created_at>>

\* a raw transaction that carries its value and both its addresses
WellFormed(tx) ==
    /\ ~tx.in_msg_null
    /\ tx.has_value
    /\ tx.source # NoAddress
    /\ tx.destination # NoAddress

\* the raw transaction a published record was made from
RawOf(rec) == ChainBlock(rec.hash[1]).txs[rec.hash[2]]

\* run() is at transaction tx_i of a block it iterates over
AtTransaction ==
    /\ pc \in {"for_tx", "whale_alert"}
    /\ transactions.iterable
    /\ tx_i <= Len(transactions.txs)

\* the positions of a run() loop that has not ended
LoopPositions ==
    {"idle", "fetch", "publish", "fetch_activity", "publish_activity",
     "rate_sleep", "sleep_cycle", "sleep_error"}

\* the state and the progress of poller p's run(): its position, its locals
\* and its records on news-feed
RunState(p) ==
    <<run_pc[p], run_src[p], run_items[p], run_i[p],
      [key \in {k \in NewsKeys : k[1] = p} |-> topic_news[key]]>>

\* the batch the last detector call was given is empty: no transaction, no
\* activity, or network statistics without volume
EmptyBatchGiven ==
    \/ det_op \in {"transaction", "wallet"} /\ det_batch = << >>
    \/ det_op = "network"
         /\ (~det_stats.has_volume \/ det_stats.transaction_volume = 0)

----------------------------------------------------------------------------
(* Properties *)

\* C1: the cursor is advanced to height h only after block h has been
\* fetched and all its transactions processed and published: in no state is
\* the cursor at a height whose block is still being fetched or processed.
\* (The code increments the cursor before it fetches the block.)
C1_CursorOnlyAfterBlock ==
    last_processed_block > TON_INDEXER_START_BLOCK => ~BlockInFlight

\* C2: a failed fetch of height h does not advance the cursor past h: every
\* height the cursor has passed was returned by the Chain Client, so no
\* height is skipped. (The code turns a failed fetch into an empty block.)
C2_NoHeightSkipped ==
    \A h \in Heights : Passed(h) => h \in fetch_ok

\* C3: at-least-once delivery: for every height the cursor has passed (and
\* the client returned), every non-dust transaction has its Transaction
\* record on ton-transactions and, when it is a whale, its WhaleAlert on
\* whale-alerts. (The code swallows a publish error and moves on.)
C3_AtLeastOnce ==
    \A h \in fetch_ok : Passed(h) =>
        \A i \in NonDustTxs(h) :
            LET tx == ChainBlock(h).txs[i]
            IN  /\ RecordsOf(topic_transactions, tx.hash) # {}
                /\ IsWhale(ValueOf(tx)) =>
                       RecordsOf(topic_whale_alerts, tx.hash) # {}

\* C4: the cursor never decreases, whatever the Chain Client answers.
C4_CursorNeverDecreases ==
    [][last_processed_block' >= last_processed_block]_vars

\* C4 witness: the client has reported a height below the cursor (or its
\* request failed after blocks were processed) and run() has compared it.
C4_Witness ==
    /\ pc = "sleep_poll"
    /\ latest_block < last_processed_block
    /\ last_processed_block > TON_INDEXER_START_BLOCK

\* C5: the recent-signal history holds at most one signal per dedup key.
\* (The code appends every signal it builds.)
C5_OneSignalPerKey ==
    \A i, j \in 1 .. Len(signal_history) :
        DedupKey(signal_history[i]) = DedupKey(signal_history[j]) => i = j

\* C6: for every transaction of a block the cursor has passed: exactly one
\* WhaleAlert when its value is at least the whale threshold, of severity
\* high iff the value exceeds 1,000,000 TON, and no WhaleAlert otherwise.
\* (Fails with C3: a publish that raises leaves a whale without its alert.)
C6_WhaleDeterminism ==
    \A h \in fetch_ok : Passed(h) =>
        LET txs == ChainBlock(h).txs
        IN  \A i \in 1 .. Len(txs) :
                LET alerts == RecordsOf(topic_whale_alerts, txs[i].hash)
                    v == ValueOf(txs[i])
                IN  IF ~ExtractRaises(txs[i]) /\ v.ton >= 100000
                      THEN /\ Cardinality(alerts) = 1
                           /\ \A k \in alerts :
                                 topic_whale_alerts[k].severity = "high"
                                   <=> (v.ton > 1000000 \/ (v.ton = 1000000 /\ v.nano > 0))
                      ELSE alerts = {}

\* C7: the transaction check returns exactly one large_transaction anomaly
\* of severity high for each transaction whose value exceeds ten times the
\* batch mean, in batch order, and nothing else; 100 transactions of 1 TON
\* and one of 2000 TON give one anomaly, [10, 10, 10, 10, 50] gives none.
C7_LargeTransactionRule ==
    det_op = "transaction" =>
        LET n == Len(det_batch)
            total == SumValueTon(det_batch)
            over == {i \in 1 .. n : GetValueTon(det_batch[i]) * n > 10 * total}
        IN  /\ \A k \in 1 .. Len(det_result) :
                  /\ det_result[k].type = "large_transaction"
                  /\ det_result[k].severity = "high"
                  /\ det_result[k].transaction \in over
            /\ \A k, l \in 1 .. Len(det_result) :
                  k < l => det_result[k].transaction < det_result[l].transaction
            /\ \A i \in over : \E k \in 1 .. Len(det_result) :
                  det_result[k].transaction = i
            /\ det_batch = MkTxs(Fill(100, 1) \o <<2000>>) =>
                  /\ Len(det_result) = 1
                  /\ det_result[1].transaction = 101
            /\ det_batch = MkTxs(<<10, 10, 10, 10, 50>>) => det_result = << >>

\* C7 witness: the 100 x 1 TON + 2000 TON batch has been checked and gave
\* its one anomaly.
C7_Witness ==
    /\ det_op = "transaction"
    /\ det_batch = MkTxs(Fill(100, 1) \o <<2000>>)
    /\ Len(det_result) = 1

\* C8: on a freshly constructed detector (no batch observed before, the
\* baseline empty) the network check returns no anomaly, whatever the
\* volume. (The code has no warm-up: an empty baseline counts as 0.)
C8_NoNetworkAnomalyBeforeWarmUp ==
    (det_op = "network" /\ net_observed = 1) =>
        AnomaliesOfType(det_result, "high_network_activity") = {}

\* C9: the wallet check returns exactly one high_frequency_trading anomaly,
\* of severity medium, when the activity holds 101 or more transactions and
\* none when it holds 100 or fewer.
C9_WalletFrequencyBoundary ==
    det_op = "wallet" =>
        LET hft == AnomaliesOfType(det_result, "high_frequency_trading")
        IN  /\ Cardinality(hft) = IF Len(det_batch) >= 101 THEN 1 ELSE 0
            /\ \A k \in hft : det_result[k].severity = "medium"

\* C9 witness: a wallet with exactly 101 transactions has been checked and
\* flagged.
C9_Witness ==
    /\ det_op = "wallet"
    /\ Len(det_batch) = 101
    /\ AnomaliesOfType(det_result, "high_frequency_trading") # {}

\* C10: the wallet check returns a large_volume anomaly of severity high iff
\* the activity's volume exceeds 1,000,000 TON, independently of the
\* frequency check: the anomaly types returned are exactly those whose
\* condition holds.
C10_WalletVolumeIndependent ==
    det_op = "wallet" =>
        LET count == Len(det_batch)
            volume == SumValueTon(det_batch)
            lv == AnomaliesOfType(det_result, "large_volume")
        IN  /\ Cardinality(lv) = IF volume > 1000000 THEN 1 ELSE 0
            /\ \A k \in lv : det_result[k].severity = "high"
            /\ AnomalyTypes(det_result) =
                  (IF count > 100 THEN {"high_frequency_trading"} ELSE {})
                  \cup (IF volume > 1000000 THEN {"large_volume"} ELSE {})

\* C10 witness: a wallet over both limits has been checked and both
\* anomalies were returned.
C10_Witness ==
    /\ det_op = "wallet"
    /\ Len(det_batch) > 100
    /\ SumValueTon(det_batch) > 1000000
    /\ AnomalyTypes(det_result) = {"high_frequency_trading", "large_volume"}

\* C11: dust filter: no Transaction and no WhaleAlert record is published
\* for a transaction whose value is below 1.0 TON, and every well-formed
\* transaction of at least 1.0 TON of a block the cursor has passed is on
\* ton-transactions. (Fails with C3: a publish that raises is swallowed.)
C11_DustFilter ==
    /\ \A k \in 1 .. Len(topic_transactions) :
          ~TonLess(topic_transactions[k].value, DustThresholdTon)
    /\ \A k \in 1 .. Len(topic_whale_alerts) :
          ~TonLess(topic_whale_alerts[k].value, DustThresholdTon)
    /\ \A h \in fetch_ok : Passed(h) =>
          LET txs == ChainBlock(h).txs
          IN  \A i \in 1 .. Len(txs) :
                  (WellFormed(txs[i]) /\ ~IsDust(txs[i])) =>
                      RecordsOf(topic_transactions, txs[i].hash) # {}

\* C12: a single bad record never fails the block: whatever happens while
\* run() is at a transaction of a block (the extraction or a send raising
\* included), run() stays in that block's for loop, at the same or at the
\* next transaction, with the block and the cursor unchanged; the exhausted
\* loop ends in the short sleep, which leads to the next block.
C12_BadRecordNeverFailsBlock ==
    [][ /\ AtTransaction =>
              /\ pc' \in {"for_tx", "whale_alert"}
              /\ transactions' = transactions
              /\ last_processed_block' = last_processed_block
              /\ tx_i' \in {tx_i, tx_i + 1}
        /\ (pc = "for_tx" /\ transactions.iterable
              /\ tx_i > Len(transactions.txs) /\ pc' # pc) => pc' = "sleep_block"
        /\ (pc = "sleep_block" /\ pc' # pc) =>
              /\ pc' = "while_blocks"
              /\ last_processed_block' = last_processed_block
      ]_vars

\* C12 witness: the first transaction of a block raised in the extraction
\* ("in_msg": null), a later transaction of that block was published, and
\* run() is in the following block.
C12_Witness ==
    \E h \in fetch_ok :
        /\ Len(ChainBlock(h).txs) >= 2
        /\ ExtractRaises(ChainBlock(h).txs[1])
        /\ \E i \in 2 .. Len(ChainBlock(h).txs) :
              RecordsOf(topic_transactions, ChainBlock(h).txs[i].hash) # {}
        /\ last_processed_block = h + 1
        /\ pc = "for_tx"

\* C13: malformed entries are skipped: no record on ton-transactions or
\* whale-alerts was made from a raw transaction that lacks its value, its
\* source address or its destination address. (The code publishes a
\* transaction without addresses, with source or destination None.)
C13_MalformedNeverPublished ==
    /\ \A k \in 1 .. Len(topic_transactions) : WellFormed(RawOf(topic_transactions[k]))
    /\ \A k \in 1 .. Len(topic_whale_alerts) : WellFormed(RawOf(topic_whale_alerts[k]))

\* C14: shutdown consistency: once stop() has been called, a block that
\* run() is still fetching or processing has an open producer to publish to.
\* (stop() closes the producer at once, whatever run() is doing.)
C14_BlockFinishedBeforeSinkClosed ==
    (stop_pc # "idle" /\ BlockInFlight) => kafka_producer = "open"

\* C15: every Signal is pushed to the Sink: every signal held in the
\* recent-signal history is on ai-signals, and every whale alert the cursor
\* loop published has a Signal on ai-signals. (The signal generator has no
\* producer, and the indexer never calls it.)
C15_EverySignalPublished ==
    /\ \A k \in 1 .. Len(signal_history) :
          \E j \in 1 .. Len(topic_signals) : topic_signals[j] = signal_history[k]
    /\ \A k \in 1 .. Len(topic_whale_alerts) :
          \E j \in 1 .. Len(topic_signals) :
              /\ topic_signals[j].data_type = "whale_tx"
              /\ topic_signals[j].data_ref = topic_whale_alerts[k].hash

\* the capacity N of the recent-signal buffer, scaled to the number of
\* signals generated
RecentSignalsN == MaxSignals - 1

\* C16: the recent-signal buffer holds at most N signals. (The code appends
\* to a list it never trims.)
C16_RecentBufferBounded ==
    Len(signal_history) <= RecentSignalsN

\* C17: every whale signal has confidence 0.75, every anomaly signal 0.8,
\* and every signal's confidence lies within [0, 1]. (The code copies a
\* sentiment summary's confidence unclamped.)
C17_ConfidenceBounded ==
    \A k \in 1 .. Len(signal_history) :
        LET sig == signal_history[k]
        IN  /\ sig.signal_type \in {"whale_to_exchange", "whale_accumulation"}
                  => sig.confidence = 75
            /\ sig.signal_type = "anomaly_detection" => sig.confidence = 80
            /\ sig.confidence \in 0 .. 100

\* C18: off-chain dedup: an item with the same content key (article URL,
\* commit SHA) returned in two poll cycles of a poller is published at most
\* once. (Each cycle publishes everything it fetched.)
C18_PublishedAtMostOnce ==
    \A key \in ContentKeys : topic_news[key] <= 1

\* C19: poller isolation: a poller's run() loop never ends; a step in which
\* a poller's cycle fails (or otherwise moves on) changes neither the state
\* and progress of another poller, nor any poller's session and producer,
\* nor the indexer; and after its retry delay the failed poller begins a
\* further cycle.
C19_PollerIsolation ==
    [][\A p \in Runners :
          /\ run_pc'[p] \in LoopPositions
          /\ RunState(p)' # RunState(p) =>
                /\ \A q \in Runners \ {p} : RunState(q)' = RunState(q)
                /\ poller_state' = poller_state
                /\ last_processed_block' = last_processed_block
                /\ idxVars' = idxVars
          /\ (run_pc[p] = "sleep_error" /\ run_pc'[p] # "sleep_error") =>
                /\ run_pc'[p] = "fetch"
                /\ run_src'[p] = 1
      ]_vars

\* C19 witness: a poller whose cycle failed on a publish is in a further
\* cycle, with items fetched and about to be published.
C19_Witness ==
    \E p \in Runners :
        /\ run_last[p] = "error"
        /\ run_pc[p] = "publish"
        /\ cycles >= 2

\* C20: graceful degradation at start-up: a poller whose start() failed or
\* found no credentials does not fail the start-up, and when the application
\* serves, the indexer runs and every poller's start() has been called.
\* (lifespan() re-raises the error of any start().)
C20_StartupSurvivesPollerFailure ==
    /\ (\E p \in Pollers : poller_state[p] \in {"failed", "disabled"}) =>
          lifespan_pc # <<"startup_failed">>
    /\ lifespan_pc = <<"serving">> =>
          /\ is_running
          /\ \A p \in Pollers : poller_state[p] # "new"

C21_EmptyBlockPublishesNothing ==
    [][(pc = "for_tx" /\ transactions.txs = << >>) =>
          /\ topic_transactions' = topic_transactions
          /\ topic_whale_alerts' = topic_whale_alerts]_vars

\* C22: the network baseline is updated after every batch given to the
\* network check: once k >= 1 batches were given, the baseline holds an
\* average volume, and it has observed k samples. (The code reads the
\* baseline and never writes it.)
C22_BaselineUpdated ==
    net_observed >= 1 =>
        /\ "avg_tx_volume" \in DOMAIN baseline_metrics
        /\ DictGet(baseline_metrics, "samples", 0) = net_observed

\* C23: backoff: after a failed fetch the cursor loop is in BACKOFF (the
\* sleep of its error handler) or retrying: while the block at the cursor is
\* one whose fetch raised and has not succeeded since, run() is not going
\* through the block's transactions nor sleeping as after a processed
\* block. (The code's fetch swallows the error and returns an empty block;
\* the only error delay is a constant 10 s.)
C23_BackoffAfterFailure ==
    (last_processed_block \in fetch_err \ fetch_ok) =>
        pc \notin {"for_tx", "whale_alert", "sleep_block"}

\* C24: run() never returns except on a shutdown signal: run() ends only
\* at its "while self.is_running" test, and only when stop() has been called
\* (or start() never was, so that no poll cycle took place); no failure of
\* the Chain Client or of the Sink ends it.
C24_RunEndsOnlyOnStop ==
    [][(pc' = "returned" /\ pc # "returned") =>
          /\ pc = "while_running"
          /\ stop_pc # "idle" \/ kafka_producer = "none"]_vars

\* C24 witness: a fetch has failed, the payload of a block was no list, and
\* run(), with stop() not called, is in its handler's sleep.
C24_Witness ==
    /\ pc = "sleep_error"
    /\ fetch_err # {}
    /\ stop_pc = "idle"
    /\ is_running

\* C25: after the shutdown has stopped a poller whose run() loop is going,
\* that run() eventually ends. (The loops are "while True" and stop() sets
\* nothing they test: they go on failing and sleeping for ever.)
C25_PollerRunEnds ==
    \A p \in Runners :
        (poller_state[p] = "stopped" /\ run_pc[p] # "idle")
            ~> (run_pc[p] \notin LoopPositions)

\* C26: once stop() was called on the indexer, a run() that was called
\* returns, wherever in the poll cycle it stood.
C26_RunReturnsAfterStop ==
    (stop_pc # "idle" /\ pc # "idle") ~> (pc = "returned")

\* stop() came in the middle of a catch-up and run() returned after it
C26_Witness ==
    /\ pc = "returned"
    /\ stop_pc = "done"
    /\ last_processed_block >= 2
    /\ last_processed_block = latest_block

\* C27, as stated: when the client has reported a height L above the cursor
\* and the indexer keeps running, the cursor reaches L, one height after the
\* other, and the poll interval is slept only when the cursor equals the
\* height the client reported last. (A client that reports a height below
\* the cursor makes run() sleep the poll interval with the cursor above it,
\* and after an error caught by run()'s handler the height L is forgotten.)
C27_CatchUpThenPollAtLatest ==
    /\ \A L \in 1 .. MaxHeight :
           (pc = "while_blocks" /\ latest_block = L /\ last_processed_block < L)
               ~> (last_processed_block >= L \/ ~is_running)
    /\ [][last_processed_block' \in
              {last_processed_block, last_processed_block + 1}]_vars
    /\ [](pc = "sleep_poll" => last_processed_block = latest_block)

\* C27, amended: when the client has reported a height L above the cursor,
\* the cursor reaches L unless stop() is called or, after an error caught by
\* run()'s handler, the client reports a height below L; the heights are
\* taken one after the other, and the poll interval is slept only when no
\* height is pending (the cursor is at or above the height reported last).
C27_CatchUpWithoutPollSleep ==
    /\ \A L \in 1 .. MaxHeight :
           (pc = "while_blocks" /\ latest_block = L /\ last_processed_block < L)
               ~> (last_processed_block >= L \/ latest_block < L \/ ~is_running)
    /\ [][last_processed_block' \in
              {last_processed_block, last_processed_block + 1}]_vars
    /\ [](pc = "sleep_poll" => last_processed_block >= latest_block)

\* two heights or more were caught up with, and run() sleeps the poll
\* interval at the height reported last
C27_Witness ==
    /\ pc = "sleep_poll"
    /\ is_running
    /\ last_processed_block = latest_block
    /\ latest_block >= 2
    /\ Cardinality(fetch_ok) >= 2

\* C28: the block field of every Transaction record is the height of the
\* block whose fetch returned the transaction (a transaction's hash holds
\* the height of its block as first component).
C28_BlockFieldIsFetchedHeight ==
    \A k \in 1 .. Len(topic_transactions) :
        /\ topic_transactions[k].block = topic_transactions[k].hash[1]
        /\ topic_transactions[k].block \in fetch_ok

\* a record of a block published in the middle of a catch-up, the cursor
\* below the latest height
C28_Witness ==
    /\ last_processed_block < latest_block
    /\ \E k \in 1 .. Len(topic_transactions) :
           /\ topic_transactions[k].block = last_processed_block
           /\ topic_transactions[k].block >= 2

\* C29: a WhaleAlert is appended to whale-alerts only when the Transaction
\* record of the same transaction is on ton-transactions already, so every
\* WhaleAlert has an earlier Transaction record of its hash and a
\* transaction whose Transaction send failed has no WhaleAlert.
C29_AlertAfterTransaction ==
    [][topic_whale_alerts' # topic_whale_alerts =>
          /\ Len(topic_whale_alerts') = Len(topic_whale_alerts) + 1
          /\ RecordsOf(topic_transactions,
                       topic_whale_alerts'[Len(topic_whale_alerts')].hash) # {}
          /\ topic_transactions' = topic_transactions]_vars

\* a whale's alert is published, and an earlier whale whose Transaction send
\* had failed has neither record
C29_Witness ==
    /\ topic_whale_alerts # << >>
    /\ \E h \in Heights : \E i \in NonDustTxs(h) :
           LET tx == ChainBlock(h).txs[i]
           IN  /\ IsWhale(ValueOf(tx))
               /\ Passed(h)
               /\ h \in fetch_ok
               /\ RecordsOf(topic_transactions, tx.hash) = {}
               /\ RecordsOf(topic_whale_alerts, tx.hash) = {}

----------------------------------------------------------------------------
(* Specifications *)

Init ==
    InitIndexer /\ InitDetector /\ InitSignals /\ InitPollers /\ InitLifespan

\* the indexer
Spec == Init /\ [][NextIndexer]_vars

\* the indexer left as constructed, over one chain
InitOneChain == Init /\ chain_offset = 0

\* the anomaly detector
SpecDetector == InitOneChain /\ [][NextDetector]_vars

\* the signal generator
SpecSignals == InitOneChain /\ [][NextSignals]_vars

\* the application: lifespan() and the off-chain pollers' run() loops
NextApp == NextLifespan \/ NextPollers

SpecApp == InitOneChain /\ [][NextApp]_vars

\* the indexer with run() scheduled fairly: an await of a request, of a send
\* or of a sleep completes
SpecFair == Spec /\ WF_vars(IndexerRunStep)

\* the application, the cycles of the stopped pollers included
NextAppFair == NextApp \/ \E p \in Runners : PollerCycleStopped(p)

\* the application with each poller's run() scheduled fairly: an await of a
\* fetch, of a send or of a sleep completes
SpecAppFair ==
    /\ InitOneChain
    /\ [][NextAppFair]_vars
    /\ \A p \in Runners : WF_vars(RunStep(p))

====
